---- MODULE Spec2Model ----
(***************************************************************************)
(* Expense tracker (src/main.py): six tools over one SQLite table          *)
(* `expenses`.  The committed table is a set of rows and sqlite_sequence   *)
(* is a counter.  Every tool is an `async def` handler: the calls in       *)
(* progress are tasks of one event loop, and a handler gives the loop back *)
(* at each await (connect, execute, commit or fetchall, close), so the     *)
(* steps of different calls interleave.  Each call opens its own           *)
(* connection; a writing statement opens a transaction that holds the      *)
(* database's write lock until the call commits or closes, and other       *)
(* connections read the committed table meanwhile (WAL).                   *)
(*                                                                         *)
(* A handler builds the statement text and the parameter vector exactly as *)
(* the code does.  SQL text is a sequence of fragments, parameters are     *)
(* bound positionally.  An optional Python argument is <<>> for None and   *)
(* <<v>> for the value v.  A bound SQL value is <<"int", n>> or            *)
(* <<"text", s>>.                                                          *)
(***************************************************************************)
EXTENDS Integers, Sequences, FiniteSets, TLC

VARIABLES
    store,     \* the committed rows of table expenses
    seq,       \* committed sqlite_sequence: the largest rowid ever held
    history,   \* every id a committed row has ever had (for the id claims)
    txn,       \* the open write transaction: its owner and its pending table
    pc,        \* per task: the await its handler is suspended at
    call,      \* per task: the tool called and its arguments
    cursor,    \* per task: what its statement gave (the value to return)
    result,    \* per task: what the handler returned, or the exception raised
    executed   \* per task: the statements executed, with their parameters

vars == <<store, seq, history, txn, pc, call, cursor, result, executed>>

\* ---------------------------------------------------------------- bounds

\* Upper limit of sqlite_sequence explored: ids 2..MaxSeq can be assigned.
MaxSeq == 3

\* Calls in progress at once: the tasks of the event loop.
MaxTasks == 2

\* In the specification with the wide filter sets, the delete_expenses and
\* update_expenses calls in progress at once (add_expense calls overlap them).
MaxWide == 1

\* A delete or update call is explored with at most this many of its six
\* filters given.
MaxFilters == 2

Tasks == 1..MaxTasks

\* ---------------------------------------------------------------- values

None == <<>>

Some(v) == <<v>>

IsNone(x) == x = <<>>

Val(x) == x[1]

Opt(S) == {None} \cup {Some(v) : v \in S}

\* Python truthiness of an optional string argument: None and "" are falsy.
Truthy(x) == ~IsNone(x) /\ Val(x) # ""

IntV(n) == <<"int", n>>

TextV(s) == <<"text", s>>

\* The strings the model uses, numerals included, in SQLite's BINARY
\* collation order (memcmp).
StrOrder ==
    <<"", "-1", "-2", "-3", "-4", "-5", "0", "1", "2", "2024-01-01", "2024-01-31",
      "3", "4", "5", "Food", "n", "s">>

Rank(s) == CHOOSE i \in 1..Len(StrOrder) : StrOrder[i] = s

\* A value as column date holds or compares it: the column's TEXT affinity
\* turns a number into its decimal text.
AsText(v) == IF v[1] = "int" THEN ToString(v[2]) ELSE v[2]

\* <= between column date and a bound value (date BETWEEN ? AND ?): TEXT
\* affinity is applied to the bound value, then text compares by memcmp.
SqlLeq(a, b) == Rank(AsText(a)) <= Rank(AsText(b))

Dates == {"2024-01-01", "2024-01-31"}

Amounts == {5, -5}

Categories == {"Food", ""}

Abs(n) == IF n < 0 THEN -n ELSE n

\* ----------------------------------------------------------------- table

\* A row of `expenses` as SELECT * returns it (dict(zip(cols, r))).
Row(id, date, amount, category, subcategory, note) ==
    [id |-> id, date |-> date, amount |-> amount, category |-> category,
     subcategory |-> subcategory, note |-> note]

Ids(rows) == {r.id : r \in rows}

\* The value of a column of a row, as SQLite stores it.
Col(r, c) ==
    CASE c = "id" -> IntV(r.id)
      [] c = "date" -> TextV(r.date)
      [] c = "amount" -> IntV(r.amount)
      [] c = "category" -> TextV(r.category)
      [] c = "subcategory" -> TextV(r.subcategory)
      [] c = "note" -> TextV(r.note)

\* The rows of a set, as a sequence in ascending rowid order (table scan).
RECURSIVE ById(_)
ById(rows) ==
    IF rows = {} THEN <<>>
    ELSE LET r == CHOOSE x \in rows : \A y \in rows : x.id <= y.id
         IN  <<r>> \o ById(rows \ {r})

\* ORDER BY date DESC, id DESC.
RECURSIVE ByDateDescIdDesc(_)
ByDateDescIdDesc(rows) ==
    IF rows = {} THEN <<>>
    ELSE LET r == CHOOSE x \in rows : \A y \in rows :
                      \/ Rank(x.date) > Rank(y.date)
                      \/ (x.date = y.date /\ x.id >= y.id)
         IN  <<r>> \o ByDateDescIdDesc(rows \ {r})

RECURSIVE SumAmount(_)
SumAmount(rows) ==
    IF rows = {} THEN 0
    ELSE LET r == CHOOSE x \in rows : TRUE
         IN  r.amount + SumAmount(rows \ {r})

\* Columns id and amount have numeric affinity, the others TEXT.
Numeric(c) == c \in {"id", "amount"}

\* `column = ?` for column c of row r and the bound value v, after the
\* column's affinity is applied to v: for a TEXT column a number compares as
\* its decimal text; for a numeric column a text that is a decimal numeral
\* compares as that number, and any other text equals no number.
SqlEq(r, c, v) ==
    IF Numeric(c)
    THEN IF v[1] = "int" THEN Col(r, c)[2] = v[2] ELSE ToString(Col(r, c)[2]) = v[2]
    ELSE Col(r, c)[2] = AsText(v)

\* The integers whose decimal text is a string of StrOrder.
Numerals == -5..5

\* Whether the text s is a decimal numeral, and the number it denotes.
IsNumeral(s) == \E n \in Numerals : ToString(n) = s

NumeralValue(s) == CHOOSE n \in Numerals : ToString(n) = s

\* The value column c stores for the bound value v, after the column's
\* affinity is applied: a TEXT column stores a number as its decimal text; a
\* numeric column stores a text that is a decimal numeral as that number and
\* any other text as the text it is.
Stored(c, v) ==
    IF Numeric(c)
    THEN IF v[1] = "text" /\ IsNumeral(v[2]) THEN NumeralValue(v[2]) ELSE v[2]
    ELSE AsText(v)

\* ------------------------------------------------------------ statements

\* Statement text is a sequence of fragments; these are the fragments the
\* handlers concatenate.
DeleteHead == "DELETE FROM expenses"

UpdateHead == "UPDATE expenses SET"

SelectHead == "SELECT * FROM expenses"

Where11 == "WHERE 1=1"

AndId == " AND id = ?"

AndDate == " AND date = ?"

AndBetween == " AND date BETWEEN ? AND ?"

AndCategory == " AND category = ?"

AndSubcategory == " AND subcategory = ?"

SetDate == "date = ?"

SetAmount == "amount = ?"

SetCategory == "category = ?"

SetSubcategory == "subcategory = ?"

SetNote == "note = ?"

\* The number of ? placeholders in a fragment.
Placeholders(f) ==
    IF f \in {DeleteHead, UpdateHead, SelectHead, Where11} THEN 0
    ELSE IF f = AndBetween THEN 2
    ELSE 1

RECURSIVE CountPlaceholders(_)
CountPlaceholders(q) ==
    IF q = <<>> THEN 0 ELSE Placeholders(Head(q)) + CountPlaceholders(Tail(q))

\* Position of the first "WHERE 1=1" in the text.
WherePos(q) == CHOOSE i \in 1..Len(q) : q[i] = Where11 /\ \A j \in 1..(i-1) : q[j] # Where11

\* query.split("WHERE 1=1", 1)[1]: the text after the first "WHERE 1=1".
SplitTail(q) == SubSeq(q, WherePos(q) + 1, Len(q))

\* The SET assignments of an UPDATE: the fragments between the head and WHERE.
SetPart(q) == SubSeq(q, 2, WherePos(q) - 1)

\* The column a fragment names.
FragCol(f) ==
    CASE f \in {AndId} -> "id"
      [] f \in {AndDate, AndBetween, SetDate} -> "date"
      [] f \in {SetAmount} -> "amount"
      [] f \in {AndCategory, SetCategory} -> "category"
      [] f \in {AndSubcategory, SetSubcategory} -> "subcategory"
      [] f \in {SetNote} -> "note"

\* Whether row r satisfies the AND-ed predicates w, bound in order to ps.
RECURSIVE Matches(_, _, _)
Matches(r, w, ps) ==
    IF w = <<>> THEN TRUE
    ELSE IF Head(w) = AndBetween
         THEN /\ SqlLeq(ps[1], Col(r, "date"))
              /\ SqlLeq(Col(r, "date"), ps[2])
              /\ Matches(r, Tail(w), SubSeq(ps, 3, Len(ps)))
         ELSE /\ SqlEq(r, FragCol(Head(w)), ps[1])
              /\ Matches(r, Tail(w), Tail(ps))

\* Row r after the assignments s, bound in order to ps.
RECURSIVE Assign(_, _, _)
Assign(r, s, ps) ==
    IF s = <<>> THEN r
    ELSE Assign([r EXCEPT ![FragCol(Head(s))] = Stored(FragCol(Head(s)), ps[1])],
                Tail(s), Tail(ps))

\* str(e) of the sqlite3.ProgrammingError raised when a statement with
\* `uses` placeholders is executed with `supplied` parameters.
BindingError(uses, supplied) ==
    "Incorrect number of bindings supplied. The current statement uses "
       \o ToString(uses) \o ", and there are " \o ToString(supplied) \o " supplied."

\* cursor.execute(q, ps) on table t: the table afterwards, the rows fetched,
\* cursor.rowcount, and the exception sqlite3 raises ("" for none).
Execute(t, q, ps) ==
    IF CountPlaceholders(q) # Len(ps)
    THEN [table |-> t, rows |-> <<>>, rowcount |-> -1, exc |-> BindingError(CountPlaceholders(q), Len(ps))]
    ELSE LET w    == SplitTail(q)
             nset == IF q[1] = UpdateHead THEN Len(SetPart(q)) ELSE 0
             wps  == SubSeq(ps, nset + 1, Len(ps))
             hit  == {r \in t : Matches(r, w, wps)}
         IN  CASE q[1] = SelectHead ->
                    [table |-> t, rows |-> ById(hit), rowcount |-> -1, exc |-> ""]
               [] q[1] = DeleteHead ->
                    [table |-> t \ hit, rows |-> <<>>,
                     rowcount |-> Cardinality(hit), exc |-> ""]
               [] q[1] = UpdateHead ->
                    [table |-> (t \ hit) \cup
                                 {Assign(r, SetPart(q), SubSeq(ps, 1, nset)) : r \in hit},
                     rows |-> <<>>, rowcount |-> Cardinality(hit), exc |-> ""]

\* One entry of the statement log: the text and the bound parameters.
Stmt(q, ps) == [sql |-> q, params |-> ps]

\* ---------------------------------------------------------------- results

NoCall == [op |-> "none"]

NoResult == [type |-> "none"]

\* {"status": "error", "message": str(e)}
ErrorResult(msg) == [type |-> "dict", status |-> "error", message |-> msg]

\* An exception that leaves the handler.
Raised(exc) == [type |-> "exception", exc |-> exc]

IsError(res) == res.type = "dict" /\ res.status = "error"

\* No write transaction is open.
NoTxn == [owner |-> 0, store |-> {}, seq |-> 0]

\* init_db has run: its test row took id 1 and was deleted again; no call
\* is in progress.
Init ==
    /\ store = {}
    /\ seq = 1
    /\ history = {1}
    /\ txn = NoTxn
    /\ pc = [k \in Tasks |-> "idle"]
    /\ call = [k \in Tasks |-> NoCall]
    /\ cursor = [k \in Tasks |-> NoResult]
    /\ result = [k \in Tasks |-> NoResult]
    /\ executed = [k \in Tasks |-> <<>>]

\* ---------------------------------------------------------------- inserts

\* Variant of NextRowid, a table without AUTOINCREMENT: one more than the
\* largest rowid the table holds now.
NextRowidNoAutoincrement(t, sq) ==
    IF t = {} THEN 1
    ELSE (CHOOSE i \in Ids(t) : \A j \in Ids(t) : j <= i) + 1

\* The rowid an AUTOINCREMENT table gives the next row: one more than the
\* largest rowid the table has ever held (sqlite_sequence).
NextRowid(t, sq) == sq + 1

\* INSERT INTO expenses(date, amount, category, subcategory, note)
\* VALUES (?,?,?,?,?) with the five arguments (optionals; None binds NULL):
\* the NOT NULL columns are checked in column order.
Insert(t, sq, date, amount, category, subcategory, note) ==
    IF IsNone(date)
    THEN [table |-> t, seq |-> sq, lastrowid |-> 0,
          exc |-> "NOT NULL constraint failed: expenses.date"]
    ELSE IF IsNone(amount)
    THEN [table |-> t, seq |-> sq, lastrowid |-> 0,
          exc |-> "NOT NULL constraint failed: expenses.amount"]
    ELSE IF IsNone(category)
    THEN [table |-> t, seq |-> sq, lastrowid |-> 0,
          exc |-> "NOT NULL constraint failed: expenses.category"]
    ELSE LET id == NextRowid(t, sq)
         IN  [table |-> t \cup {Row(id, Val(date), Val(amount), Val(category),
                                    Val(subcategory), Val(note))},
              seq |-> IF id > sq THEN id ELSE sq, lastrowid |-> id, exc |-> ""]

InsertSql == "INSERT INTO expenses(date, amount, category, subcategory, note) VALUES (?,?,?,?,?)"

\* What a handler's statement, run on table t, leaves behind: the table,
\* sqlite_sequence, the value the handler returns (or the exception it
\* raises) and the statements it executed.
Outcome(t, sq, res, log) == [store |-> t, seq |-> sq, result |-> res, executed |-> log]

\* add_expense(date, amount, category, subcategory="", note="")
add_expense(t, sq, a) ==
    LET x == Insert(t, sq, a.date, a.amount, a.category, a.subcategory, a.note)
        log == <<Stmt(<<InsertSql>>, <<a.date, a.amount, a.category, a.subcategory, a.note>>)>>
    IN  IF x.exc # ""
        THEN Outcome(t, sq, ErrorResult(x.exc), log)
        ELSE Outcome(x.table, x.seq, [type |-> "dict", status |-> "ok", id |-> x.lastrowid], log)

\* credit_amount = -abs(amount) is evaluated before the try block and before
\* the first await: the exception it raises leaves the handler at once.
credit_prefix(a) ==
    IF IsNone(a.amount)
    THEN Raised("TypeError: bad operand type for abs(): 'NoneType'")
    ELSE NoResult

\* credit_expense(date, amount, category, subcategory="", note="")
credit_expense(t, sq, a) ==
    IF credit_prefix(a).type # "none"
    THEN Outcome(t, sq, credit_prefix(a), <<>>)
    ELSE LET credit_amount == -Abs(Val(a.amount))
             x == Insert(t, sq, a.date, Some(credit_amount), a.category, a.subcategory, a.note)
             log == <<Stmt(<<InsertSql>>,
                           <<a.date, Some(credit_amount), a.category, a.subcategory, a.note>>)>>
         IN  IF x.exc # ""
             THEN Outcome(t, sq, ErrorResult(x.exc), log)
             ELSE Outcome(x.table, x.seq,
                          [type |-> "dict", status |-> "ok", id |-> x.lastrowid,
                           credited |-> credit_amount], log)

\* ---------------------------------------------------------------- queries

ListSql == "SELECT id, date, amount, category, subcategory, note FROM expenses WHERE date BETWEEN ? AND ? ORDER BY date DESC, id DESC"

\* WHERE date BETWEEN ? AND ?
InRange(r, lo, hi) == SqlLeq(TextV(lo), Col(r, "date")) /\ SqlLeq(Col(r, "date"), TextV(hi))

\* list_expenses(start_date, end_date): a bare list of rows on success.
list_expenses(t, sq, a) ==
    Outcome(t, sq,
            [type |-> "list",
             rows |-> ByDateDescIdDesc({r \in t : InRange(r, a.start_date, a.end_date)})],
            <<Stmt(<<ListSql>>, <<a.start_date, a.end_date>>)>>)

SummarizeSql == "SELECT category, SUM(amount) AS total_amount, COUNT(*) AS count FROM expenses WHERE date BETWEEN ? AND ?"

GroupBySql == " GROUP BY category ORDER BY total_amount DESC"

\* if category: (None and "" add no predicate)
SummarizeByCategory(category) == Truthy(category)

\* The rows summarize selects before GROUP BY.
SummarizeRows(t, a) ==
    {r \in t : /\ InRange(r, a.start_date, a.end_date)
               /\ SummarizeByCategory(a.category) => r.category = Val(a.category)}

\* GROUP BY category: one row per category, with SUM(amount) and COUNT(*).
SummarizeGroups(t, a) ==
    LET rows == SummarizeRows(t, a)
    IN  {[category |-> c,
          total_amount |-> SumAmount({r \in rows : r.category = c}),
          count |-> Cardinality({r \in rows : r.category = c})] :
         c \in {r.category : r \in rows}}

RECURSIVE Perms(_)
Perms(S) ==
    IF S = {} THEN {<<>>}
    ELSE UNION {{<<x>> \o p : p \in Perms(S \ {x})} : x \in S}

\* ORDER BY total_amount DESC: every order SQLite may return (ties are free).
SummarizeOrders(t, a) ==
    {p \in Perms(SummarizeGroups(t, a)) :
        \A i \in 1..(Len(p) - 1) : p[i].total_amount >= p[i+1].total_amount}

\* summarize(start_date, end_date, category=None), returning the order rows.
summarize(t, sq, a, rows) ==
    Outcome(t, sq, [type |-> "list", rows |-> rows],
            <<Stmt(<<SummarizeSql>>
                      \o (IF SummarizeByCategory(a.category) THEN <<AndCategory>> ELSE <<>>)
                      \o <<GroupBySql>>,
                   <<a.start_date, a.end_date>>
                      \o (IF SummarizeByCategory(a.category)
                          THEN <<Val(a.category)>> ELSE <<>>))>>)

\* ------------------------------------------------------- delete and update

If(c, s) == IF c THEN s ELSE <<>>

\* if start_date and end_date: (both truthy; None and "" are not)
RangeGiven(start_date, end_date) == Truthy(start_date) /\ Truthy(end_date)

\* The WHERE fragments appended after "WHERE 1=1" for the five filters.
WhereClauses(expense_id, date, start_date, end_date, category, subcategory) ==
    If(~IsNone(expense_id), <<AndId>>)
    \o If(~IsNone(date), <<AndDate>>)
    \o If(RangeGiven(start_date, end_date), <<AndBetween>>)
    \o If(~IsNone(category), <<AndCategory>>)
    \o If(~IsNone(subcategory), <<AndSubcategory>>)

\* The parameters appended along with them.
WhereParams(expense_id, date, start_date, end_date, category, subcategory) ==
    If(~IsNone(expense_id), <<IntV(Val(expense_id))>>)
    \o If(~IsNone(date), <<TextV(Val(date))>>)
    \o If(RangeGiven(start_date, end_date), <<TextV(Val(start_date)), TextV(Val(end_date))>>)
    \o If(~IsNone(category), <<TextV(Val(category))>>)
    \o If(~IsNone(subcategory), <<TextV(Val(subcategory))>>)

\* Variant of NoneGiven: the refusal is missing.
NeverNoneGiven(xs) == FALSE

\* `not xs` for a list: no clause, no parameter was appended.
NoneGiven(xs) == xs = <<>>

\* Variant of UpdateRefusal: the filters are looked at first.
UpdateRefusalFiltersFirst(set_clauses, where_params) ==
    IF NoneGiven(where_params) THEN "No filters provided. Refusing to update all records."
    ELSE IF NoneGiven(set_clauses) THEN "No new values provided."
    ELSE ""

\* The two refusals of update_expenses, in the order the handler makes them:
\* the message of the refusal, "" when the call goes ahead.
UpdateRefusal(set_clauses, where_params) ==
    IF NoneGiven(set_clauses) THEN "No new values provided."
    ELSE IF NoneGiven(where_params) THEN "No filters provided. Refusing to update all records."
    ELSE ""

\* Variant of AllParams: the two lists in the other order.
AllParamsWhereFirst(set_params, where_params) == where_params \o set_params

\* set_params + where_params, the parameters of the UPDATE statement.
AllParams(set_params, where_params) == set_params \o where_params

\* Variant of PreviewQuery: the predicates of the statement are left out.
PreviewQueryNoTail(query) == <<SelectHead, Where11>>

\* preview_query = "SELECT * FROM expenses WHERE 1=1" + query.split("WHERE 1=1", 1)[1]
PreviewQuery(query) == <<SelectHead, Where11>> \o SplitTail(query)

\* `if not params: return ...`: the refusal is returned before the first
\* await.
delete_prefix(a) ==
    IF NoneGiven(WhereParams(a.expense_id, a.date, a.start_date, a.end_date,
                             a.category, a.subcategory))
    THEN ErrorResult("No filters provided. Refusing to delete all records.")
    ELSE NoResult

\* delete_expenses(expense_id, date, start_date, end_date, category,
\*                 subcategory, dry_run)
delete_expenses(t, sq, a) ==
    LET query  == <<DeleteHead, Where11>>
                  \o WhereClauses(a.expense_id, a.date, a.start_date, a.end_date,
                                  a.category, a.subcategory)
        params == WhereParams(a.expense_id, a.date, a.start_date, a.end_date,
                              a.category, a.subcategory)
    IN  IF delete_prefix(a).type # "none"
        THEN Outcome(t, sq, delete_prefix(a), <<>>)
        ELSE IF a.dry_run
        THEN LET preview_query == PreviewQuery(query)
                 x == Execute(t, preview_query, params)
             IN  IF x.exc # ""
                 THEN Outcome(t, sq, ErrorResult(x.exc), <<Stmt(preview_query, params)>>)
                 ELSE Outcome(t, sq,
                              [type |-> "dict", status |-> "dry_run", rows |-> x.rows],
                              <<Stmt(preview_query, params)>>)
        ELSE LET x == Execute(t, query, params)
             IN  IF x.exc # ""
                 THEN Outcome(t, sq, ErrorResult(x.exc), <<Stmt(query, params)>>)
                 ELSE Outcome(x.table, sq,
                              [type |-> "dict", status |-> "ok", deleted |-> x.rowcount],
                              <<Stmt(query, params)>>)

\* set_clauses of update_expenses.
SetClauses(a) ==
    If(~IsNone(a.new_date), <<SetDate>>)
    \o If(~IsNone(a.new_amount), <<SetAmount>>)
    \o If(~IsNone(a.new_category), <<SetCategory>>)
    \o If(~IsNone(a.new_subcategory), <<SetSubcategory>>)
    \o If(~IsNone(a.new_note), <<SetNote>>)

\* set_params of update_expenses.
SetParams(a) ==
    If(~IsNone(a.new_date), <<TextV(Val(a.new_date))>>)
    \o If(~IsNone(a.new_amount), <<IntV(Val(a.new_amount))>>)
    \o If(~IsNone(a.new_category), <<TextV(Val(a.new_category))>>)
    \o If(~IsNone(a.new_subcategory), <<TextV(Val(a.new_subcategory))>>)
    \o If(~IsNone(a.new_note), <<TextV(Val(a.new_note))>>)

\* The two refusals are returned before the first await.
update_prefix(a) ==
    LET refusal == UpdateRefusal(SetClauses(a),
                       WhereParams(a.expense_id, a.filter_date, a.start_date,
                                   a.end_date, a.filter_category, a.filter_subcategory))
    IN  IF refusal # "" THEN ErrorResult(refusal) ELSE NoResult

\* update_expenses(expense_id, start_date, end_date, filter_date,
\*                 filter_category, filter_subcategory, new_date, new_amount,
\*                 new_category, new_subcategory, new_note, dry_run)
update_expenses(t, sq, a) ==
    LET set_clauses  == SetClauses(a)
        set_params   == SetParams(a)
        query        == <<UpdateHead>> \o set_clauses \o <<Where11>>
                        \o WhereClauses(a.expense_id, a.filter_date, a.start_date,
                                        a.end_date, a.filter_category, a.filter_subcategory)
        where_params == WhereParams(a.expense_id, a.filter_date, a.start_date,
                                    a.end_date, a.filter_category, a.filter_subcategory)
        params       == AllParams(set_params, where_params)
    IN  IF update_prefix(a).type # "none"
        THEN Outcome(t, sq, update_prefix(a), <<>>)
        ELSE IF a.dry_run
        THEN LET preview_query == PreviewQuery(query)
                 x == Execute(t, preview_query, where_params)
             IN  IF x.exc # ""
                 THEN Outcome(t, sq, ErrorResult(x.exc), <<Stmt(preview_query, where_params)>>)
                 ELSE Outcome(t, sq,
                              [type |-> "dict", status |-> "dry_run", rows |-> x.rows],
                              <<Stmt(preview_query, where_params)>>)
        ELSE LET x == Execute(t, query, params)
             IN  IF x.exc # ""
                 THEN Outcome(t, sq, ErrorResult(x.exc), <<Stmt(query, params)>>)
                 ELSE Outcome(x.table, sq,
                              [type |-> "dict", status |-> "ok", updated |-> x.rowcount],
                              <<Stmt(query, params)>>)

\* ------------------------------------------------------------------ inputs

\* The arguments the six tools are called with when all of them run at once.
InsertArgs ==
    [date : {Some("2024-01-01")}, amount : Opt({5}), category : {Some("Food")},
     subcategory : {Some("")}, note : {Some("")}]

RangeArgs ==
    [start_date : {"2024-01-01", "2024-01-31"}, end_date : {"2024-01-01"}]

SummarizeArgs ==
    [start_date : {""}, end_date : {"2024-01-01"}, category : Opt(Categories)]

\* Delete calls that filter by id at most, and update calls that filter by
\* category at most and set the note at most.
NarrowDeleteArgs ==
    [expense_id : Opt(2..MaxSeq), date : {None}, start_date : {None}, end_date : {None},
     category : {None}, subcategory : {None}, dry_run : BOOLEAN]

NarrowUpdateArgs ==
    [expense_id : {None}, filter_date : {None}, start_date : {None}, end_date : {None},
     filter_category : Opt({"Food"}), filter_subcategory : {None},
     new_date : {None}, new_amount : {None}, new_category : {None},
     new_subcategory : {None}, new_note : Opt({"n"}), dry_run : BOOLEAN]

\* Two records that differ in every column a filter can name.
TwoRecordArgs ==
    {[date |-> Some("2024-01-01"), amount |-> Some(5), category |-> Some("Food"),
      subcategory |-> Some(""), note |-> Some("")],
     [date |-> Some("2024-01-31"), amount |-> Some(5), category |-> Some(""),
      subcategory |-> Some("s"), note |-> Some("")]}

\* The filter arguments of delete_expenses and update_expenses, under common
\* names, with at most MaxFilters of the six given.
AllFilterArgs ==
    [id : Opt({2}), date : Opt({"2024-01-01"}),
     start : Opt({"", "2024-01-01"}), end : Opt({"2024-01-01"}),
     category : Opt({""}), subcategory : Opt({"s"})]

\* The number of filter arguments that are given.
GivenFilters(f) ==
    Cardinality({i \in 1..6 :
        ~IsNone(<<f.id, f.date, f.start, f.end, f.category, f.subcategory>>[i])})

FilterArgs == {f \in AllFilterArgs : GivenFilters(f) <= MaxFilters}

\* The wide set of delete calls.
DeleteArgs ==
    {[expense_id |-> f.id, date |-> f.date, start_date |-> f.start, end_date |-> f.end,
      category |-> f.category, subcategory |-> f.subcategory, dry_run |-> d] :
        f \in FilterArgs, d \in BOOLEAN}

\* The new-value arguments of update_expenses: none, the note, or all five.
NewValueArgs ==
    {[date |-> None, amount |-> None, category |-> None, subcategory |-> None,
      note |-> None],
     [date |-> None, amount |-> None, category |-> None, subcategory |-> None,
      note |-> Some("n")],
     [date |-> Some("2024-01-31"), amount |-> Some(-5), category |-> Some(""),
      subcategory |-> Some("s"), note |-> Some("n")]}

\* The wide set of update calls.
UpdateArgs ==
    {[expense_id |-> f.id, filter_date |-> f.date, start_date |-> f.start,
      end_date |-> f.end, filter_category |-> f.category,
      filter_subcategory |-> f.subcategory,
      new_date |-> n.date, new_amount |-> n.amount, new_category |-> n.category,
      new_subcategory |-> n.subcategory, new_note |-> n.note, dry_run |-> d] :
        f \in FilterArgs, n \in NewValueArgs, d \in BOOLEAN}

\* ------------------------------------------------------------------- steps

Inserts == {"add_expense", "credit_expense"}

Filtered == {"delete_expenses", "update_expenses"}

\* The statement of the call is an INSERT, a DELETE or an UPDATE.
Writes(c) == c.op \in Inserts \/ (c.op \in Filtered /\ ~c.args.dry_run)

\* What the handler returns (or raises) before its first await; NoResult
\* when it goes on to open a connection.
Prefix(c) ==
    CASE c.op = "credit_expense" -> credit_prefix(c.args)
      [] c.op = "delete_expenses" -> delete_prefix(c.args)
      [] c.op = "update_expenses" -> update_prefix(c.args)
      [] OTHER -> NoResult

\* What the statement of call c can leave behind when it runs on table t.
Outcomes(c, t, sq) ==
    CASE c.op = "add_expense" -> {add_expense(t, sq, c.args)}
      [] c.op = "credit_expense" -> {credit_expense(t, sq, c.args)}
      [] c.op = "list_expenses" -> {list_expenses(t, sq, c.args)}
      [] c.op = "summarize" ->
            {summarize(t, sq, c.args, rows) : rows \in SummarizeOrders(t, c.args)}
      [] c.op = "delete_expenses" -> {delete_expenses(t, sq, c.args)}
      [] c.op = "update_expenses" -> {update_expenses(t, sq, c.args)}

\* sqlite_sequence as the open transaction, if any, has left it.
HighWater == IF txn.owner # 0 THEN txn.seq ELSE seq

\* The insert calls whose statement has not run yet.
InsertsToCome ==
    Cardinality({k \in Tasks : call[k].op \in Inserts /\ pc[k] \in {"connect", "execute"}})

\* The calls of the tools in ops that are in progress.
InProgress(ops) == Cardinality({k \in Tasks : call[k].op \in ops})

\* Task k is the first free one, and fewer than cap calls of the tools in
\* capped are in progress.
Free(k, capped, cap) ==
    /\ pc[k] = "idle"
    /\ \A j \in Tasks : j < k => pc[j] # "idle"
    /\ InProgress(capped) < cap

\* The call c arrives as task k and its handler runs to its first await, the
\* opening of the connection, unless it returns or raises before that.  No
\* insert is accepted that could take an id above MaxSeq.
Begin(k, c) ==
    /\ c.op \in Inserts => HighWater + InsertsToCome < MaxSeq
    /\ call' = [call EXCEPT ![k] = c]
    /\ \E p \in {Prefix(c)} :
          IF p.type = "none"
          THEN /\ pc' = [pc EXCEPT ![k] = "connect"]
               /\ result' = result
          ELSE /\ pc' = [pc EXCEPT ![k] = "done"]
               /\ result' = [result EXCEPT ![k] = p]
    /\ UNCHANGED <<store, seq, history, txn, cursor, executed>>

\* async with aiosqlite.connect(DB_PATH) as c: the connection is open.
Connect(k, op) ==
    /\ pc[k] = "connect"
    /\ call[k].op = op
    /\ pc' = [pc EXCEPT ![k] = "execute"]
    /\ UNCHANGED <<store, seq, history, txn, call, cursor, result, executed>>

\* await c.execute(...) of a SELECT: it reads the committed table as it is
\* now, whatever transaction is open; the rows are held by the cursor.
ExecuteRead(k, op) ==
    /\ pc[k] = "execute"
    /\ call[k].op = op
    /\ ~Writes(call[k])
    /\ \E o \in Outcomes(call[k], store, seq) :
          /\ cursor' = [cursor EXCEPT ![k] = o.result]
          /\ executed' = [executed EXCEPT ![k] = o.executed]
          /\ pc' = [pc EXCEPT ![k] = IF IsError(o.result) THEN "close" ELSE "fetchall"]
    /\ UNCHANGED <<store, seq, history, txn, call, result>>

\* The last statement of the log was turned down before it started: its
\* placeholders and its parameters differ in number.
Unbound(log) ==
    /\ log # <<>>
    /\ log[Len(log)].sql # <<InsertSql>>
    /\ CountPlaceholders(log[Len(log)].sql) # Len(log[Len(log)].params)

\* await c.execute(...) of an INSERT, DELETE or UPDATE while no other
\* connection holds the write lock: the statement opens a transaction, takes
\* the lock and changes the table inside the transaction.  A statement that
\* fails on a constraint leaves the transaction open and the lock held.
ExecuteWrite(k, op) ==
    /\ pc[k] = "execute"
    /\ call[k].op = op
    /\ Writes(call[k])
    /\ txn.owner = 0
    /\ \E o \in Outcomes(call[k], store, seq) :
          /\ cursor' = [cursor EXCEPT ![k] = o.result]
          /\ executed' = [executed EXCEPT ![k] = o.executed]
          /\ pc' = [pc EXCEPT ![k] = IF IsError(o.result) THEN "close" ELSE "commit"]
          /\ txn' = IF IsError(o.result) /\ Unbound(o.executed)
                    THEN txn
                    ELSE [owner |-> k, store |-> o.store, seq |-> o.seq]
    /\ UNCHANGED <<store, seq, history, call, result>>

\* await c.execute(...) of an INSERT, DELETE or UPDATE while another
\* connection holds the write lock for longer than sqlite3's timeout: the
\* statement raises "database is locked".  (When the lock is released in
\* time the statement runs, as in ExecuteWrite.)
Locked(k, op) ==
    /\ pc[k] = "execute"
    /\ call[k].op = op
    /\ Writes(call[k])
    /\ txn.owner # 0
    /\ cursor' = [cursor EXCEPT ![k] = ErrorResult("database is locked")]
    /\ \E o \in Outcomes(call[k], store, seq) :
          executed' = [executed EXCEPT ![k] = o.executed]
    /\ pc' = [pc EXCEPT ![k] = "close"]
    /\ UNCHANGED <<store, seq, history, txn, call, result>>

\* rows = await cur.fetchall(), and the return statement.
Fetchall(k, op) ==
    /\ pc[k] = "fetchall"
    /\ call[k].op = op
    /\ result' = [result EXCEPT ![k] = cursor[k]]
    /\ pc' = [pc EXCEPT ![k] = "close"]
    /\ UNCHANGED <<store, seq, history, txn, call, cursor, executed>>

\* await c.commit(), and the return statement: the transaction's table
\* becomes the committed one and the write lock is released.
Commit(k, op) ==
    /\ pc[k] = "commit"
    /\ call[k].op = op
    /\ store' = txn.store
    /\ seq' = txn.seq
    /\ history' = history \cup Ids(txn.store)
    /\ txn' = NoTxn
    /\ result' = [result EXCEPT ![k] = cursor[k]]
    /\ pc' = [pc EXCEPT ![k] = "close"]
    /\ UNCHANGED <<call, cursor, executed>>

\* The exit of `async with`: the connection closes, which rolls back a
\* transaction it still holds; an exception raised inside then reaches the
\* except clause, which returns the error result.
Close(k, op) ==
    /\ pc[k] = "close"
    /\ call[k].op = op
    /\ txn' = IF txn.owner = k THEN NoTxn ELSE txn
    /\ result' = [result EXCEPT ![k] = IF result[k].type = "none" THEN cursor[k]
                                        ELSE result[k]]
    /\ pc' = [pc EXCEPT ![k] = "done"]
    /\ UNCHANGED <<store, seq, history, call, cursor, executed>>

\* ----------------------------------------------------------------- actions

\* One action per tool: the steps of its handler, for any task.
AddExpense(S) ==
    \E k \in Tasks :
       \/ /\ Free(k, {}, 1)
          /\ \E a \in S : Begin(k, [op |-> "add_expense", args |-> a])
       \/ Connect(k, "add_expense")
       \/ ExecuteWrite(k, "add_expense")
       \/ Locked(k, "add_expense")
       \/ Commit(k, "add_expense")
       \/ Close(k, "add_expense")

CreditExpense(S) ==
    \E k \in Tasks :
       \/ /\ Free(k, {}, 1)
          /\ \E a \in S : Begin(k, [op |-> "credit_expense", args |-> a])
       \/ Connect(k, "credit_expense")
       \/ ExecuteWrite(k, "credit_expense")
       \/ Locked(k, "credit_expense")
       \/ Commit(k, "credit_expense")
       \/ Close(k, "credit_expense")

ListExpenses ==
    \E k \in Tasks :
       \/ /\ Free(k, {}, 1)
          /\ \E a \in RangeArgs : Begin(k, [op |-> "list_expenses", args |-> a])
       \/ Connect(k, "list_expenses")
       \/ ExecuteRead(k, "list_expenses")
       \/ Fetchall(k, "list_expenses")
       \/ Close(k, "list_expenses")

Summarize ==
    \E k \in Tasks :
       \/ /\ Free(k, {}, 1)
          /\ \E a \in SummarizeArgs : Begin(k, [op |-> "summarize", args |-> a])
       \/ Connect(k, "summarize")
       \/ ExecuteRead(k, "summarize")
       \/ Fetchall(k, "summarize")
       \/ Close(k, "summarize")

DeleteExpenses(S, cap) ==
    \E k \in Tasks :
       \/ /\ Free(k, Filtered, cap)
          /\ \E a \in S : Begin(k, [op |-> "delete_expenses", args |-> a])
       \/ Connect(k, "delete_expenses")
       \/ ExecuteRead(k, "delete_expenses")
       \/ Fetchall(k, "delete_expenses")
       \/ ExecuteWrite(k, "delete_expenses")
       \/ Locked(k, "delete_expenses")
       \/ Commit(k, "delete_expenses")
       \/ Close(k, "delete_expenses")

UpdateExpenses(S, cap) ==
    \E k \in Tasks :
       \/ /\ Free(k, Filtered, cap)
          /\ \E a \in S : Begin(k, [op |-> "update_expenses", args |-> a])
       \/ Connect(k, "update_expenses")
       \/ ExecuteRead(k, "update_expenses")
       \/ Fetchall(k, "update_expenses")
       \/ ExecuteWrite(k, "update_expenses")
       \/ Locked(k, "update_expenses")
       \/ Commit(k, "update_expenses")
       \/ Close(k, "update_expenses")

\* The result (or the exception) goes back to the caller; the task ends.
Return ==
    \E k \in Tasks :
       /\ pc[k] = "done"
       /\ pc' = [pc EXCEPT ![k] = "idle"]
       /\ call' = [call EXCEPT ![k] = NoCall]
       /\ cursor' = [cursor EXCEPT ![k] = NoResult]
       /\ result' = [result EXCEPT ![k] = NoResult]
       /\ executed' = [executed EXCEPT ![k] = <<>>]
       /\ UNCHANGED <<store, seq, history, txn>>

\* The six tools, called at once over the narrow argument sets.
Next ==
    \/ AddExpense(InsertArgs)
    \/ CreditExpense(InsertArgs)
    \/ ListExpenses
    \/ Summarize
    \/ DeleteExpenses(NarrowDeleteArgs, MaxTasks)
    \/ UpdateExpenses(NarrowUpdateArgs, MaxTasks)
    \/ Return

Spec == Init /\ [][Next]_vars

\* delete_expenses and update_expenses over the wide filter sets, MaxWide of
\* them at a time, with add_expense calls running at once with them.
NextWide ==
    \/ AddExpense(TwoRecordArgs)
    \/ DeleteExpenses(DeleteArgs, MaxWide)
    \/ UpdateExpenses(UpdateArgs, MaxWide)
    \/ Return

SpecWide == Init /\ [][NextWide]_vars

\* ------------------------------------------------------------------ claims

\* Task k takes a step.
Acting(k) == pc'[k] # pc[k]

\* A call of one of the tools in ops arrives as task k.
Began(k, ops) == pc[k] = "idle" /\ pc'[k] # "idle" /\ call'[k].op \in ops

\* The handler of task k, a call of one of the tools in ops, takes a step
\* after the call has arrived.
Stepped(k, ops) == pc[k] # "idle" /\ Acting(k) /\ call[k].op \in ops

\* The statement of task k is executed (or turned away by the lock).
Ran(k, ops) == pc[k] = "execute" /\ Acting(k) /\ call[k].op \in ops

\* The statement of task k ran inside a transaction of its own.
GotLock(k) == txn.owner = 0 /\ txn'.owner = k

\* The committed table and the open transaction stay as they are.
Untouched == store' = store /\ seq' = seq /\ txn' = txn

\* The six filters of a delete or update call, under common names.
Filters(c) ==
    IF c.op = "delete_expenses"
    THEN [id |-> c.args.expense_id, date |-> c.args.date, start |-> c.args.start_date,
          end |-> c.args.end_date, category |-> c.args.category,
          subcategory |-> c.args.subcategory]
    ELSE [id |-> c.args.expense_id, date |-> c.args.filter_date, start |-> c.args.start_date,
          end |-> c.args.end_date, category |-> c.args.filter_category,
          subcategory |-> c.args.filter_subcategory]

AllFiltersAbsent(c) == GivenFilters(Filters(c)) = 0

AllNewValuesAbsent(c) ==
    /\ IsNone(c.args.new_date) /\ IsNone(c.args.new_amount) /\ IsNone(c.args.new_category)
    /\ IsNone(c.args.new_subcategory) /\ IsNone(c.args.new_note)

\* The specification's reading of the filters: a filter is present when it is
\* not None (the empty string is a value), and the range is a predicate only
\* when both of its bounds are present.
FilterActive(f) ==
    \/ ~IsNone(f.id) \/ ~IsNone(f.date) \/ ~IsNone(f.category) \/ ~IsNone(f.subcategory)
    \/ (~IsNone(f.start) /\ ~IsNone(f.end))

FilterSelects(r, f) ==
    /\ IsNone(f.id) \/ r.id = Val(f.id)
    /\ IsNone(f.date) \/ r.date = Val(f.date)
    /\ IsNone(f.category) \/ r.category = Val(f.category)
    /\ IsNone(f.subcategory) \/ r.subcategory = Val(f.subcategory)
    /\ (~IsNone(f.start) /\ ~IsNone(f.end)) =>
          (Rank(Val(f.start)) <= Rank(r.date) /\ Rank(r.date) <= Rank(Val(f.end)))

\* What the statement of call c leaves behind on the table t with dry_run
\* set to d.
OutcomeWithDryRun(t, sq, c, d) ==
    IF c.op = "delete_expenses"
    THEN delete_expenses(t, sq, [c.args EXCEPT !.dry_run = d])
    ELSE update_expenses(t, sq, [c.args EXCEPT !.dry_run = d])

\* --- C1
\* C1: a delete_expenses or update_expenses call with every filter argument
\* absent returns status = error before it opens a connection, executes no
\* statement, and neither the committed table nor an open transaction changes
\* at any step of the call, with or without dry_run.
C1_NoFiltersDeclined ==
    [][\A k \in Tasks :
          /\ (Began(k, Filtered) /\ AllFiltersAbsent(call'[k]))
               => /\ pc'[k] = "done"
                  /\ IsError(result'[k])
                  /\ executed'[k] = <<>>
                  /\ Untouched
          /\ (Stepped(k, Filtered) /\ AllFiltersAbsent(call[k]))
               => /\ pc[k] = "done"
                  /\ Untouched]_vars

\* A delete call with no filter at all was refused on a table holding rows.
C1_Witness ==
    \E k \in Tasks :
       /\ pc[k] = "done"
       /\ call[k].op = "delete_expenses"
       /\ AllFiltersAbsent(call[k])
       /\ store # {}
       /\ IsError(result[k])

\* --- C2
\* C2: an update_expenses call with every new-value argument absent returns
\* status = error with the no-new-values message before it opens a
\* connection and changes nothing, for all filters and for both values of
\* dry_run; the refusal is the no-new-values one also when the filters are
\* absent too.
C2_NoNewValuesDeclined ==
    [][\A k \in Tasks :
          /\ (Began(k, {"update_expenses"}) /\ AllNewValuesAbsent(call'[k]))
               => /\ pc'[k] = "done"
                  /\ IsError(result'[k])
                  /\ result'[k].message = "No new values provided."
                  /\ executed'[k] = <<>>
                  /\ Untouched
          /\ (Stepped(k, {"update_expenses"}) /\ AllNewValuesAbsent(call[k]))
               => /\ pc[k] = "done"
                  /\ Untouched]_vars

\* An update call with neither new values nor filters was refused on a table
\* holding rows.
C2_Witness ==
    \E k \in Tasks :
       /\ pc[k] = "done"
       /\ call[k].op = "update_expenses"
       /\ AllNewValuesAbsent(call[k])
       /\ AllFiltersAbsent(call[k])
       /\ store # {}
       /\ IsError(result[k])

\* --- C3
\* C3 as stated: every delete_expenses or update_expenses call with
\* dry_run = true leaves the table unchanged and returns status = dry_run
\* with rows equal to the matching records, unmodified.
C3_DryRunAlwaysPreviews ==
    [][\A k \in Tasks :
          /\ (Began(k, Filtered) /\ call'[k].args.dry_run)
               => (Untouched /\ pc'[k] # "done")
          /\ (Stepped(k, Filtered) /\ call[k].args.dry_run) => Untouched
          /\ (Ran(k, Filtered) /\ call[k].args.dry_run)
               => /\ cursor'[k].type = "dict"
                  /\ cursor'[k].status = "dry_run"
                  /\ cursor'[k].rows
                        = ById({r \in store : FilterSelects(r, Filters(call[k]))})]_vars

\* C3 as amended: no step of a dry-run call changes the committed table or an
\* open transaction; when the same call without dry_run would be refused it
\* returns that refusal, status = error, and otherwise it returns
\* status = dry_run with rows that are records of the committed table,
\* unmodified and in id order, and are exactly the records the same call
\* without dry_run, executed at that instant, would delete, respectively
\* count as updated and change.
C3_DryRunFrame ==
    [][\A k \in Tasks :
          /\ (Began(k, Filtered) /\ call'[k].args.dry_run)
               => \A real \in {OutcomeWithDryRun(store, seq, call'[k], FALSE)} :
                     /\ Untouched
                     /\ IF real.executed = <<>>
                        THEN /\ pc'[k] = "done"
                             /\ IsError(result'[k])
                             /\ result'[k] = real.result
                        ELSE pc'[k] = "connect"
          /\ (Stepped(k, Filtered) /\ call[k].args.dry_run)
               => /\ Untouched
                  /\ pc'[k] = "done" => result'[k] \in {result[k], cursor[k]}
          /\ (Ran(k, Filtered) /\ call[k].args.dry_run)
               => /\ cursor'[k].type = "dict"
                  /\ cursor'[k].status = "dry_run"
                  /\ pc'[k] = "fetchall"
                  /\ \A real \in {OutcomeWithDryRun(store, seq, call[k], FALSE)} :
                     \A rows \in {cursor'[k].rows} :
                        /\ \A i \in 1..Len(rows) : rows[i] \in store
                        /\ \A i, j \in 1..Len(rows) : i < j => rows[i].id < rows[j].id
                        /\ \A shown \in {{rows[i] : i \in 1..Len(rows)}} :
                              IF call[k].op = "delete_expenses"
                              THEN shown = store \ real.store
                              ELSE /\ Len(rows) = real.result.updated
                                   /\ store \ real.store \subseteq shown
          /\ (Stepped(k, Filtered) /\ call[k].args.dry_run /\ pc[k] = "fetchall")
               => result'[k] = cursor[k]]_vars

\* A dry-run delete by category previewed the one committed row while
\* another call's insert of a row of that category was pending, and returned
\* the committed row alone.
C3_Witness ==
    \E k \in Tasks :
       /\ pc[k] = "done"
       /\ call[k].op = "delete_expenses"
       /\ call[k].args.dry_run
       /\ call[k].args.category = Some("")
       /\ result[k].type = "dict"
       /\ result[k].status = "dry_run"
       /\ Len(result[k].rows) = 1
       /\ store = {result[k].rows[1]}
       /\ txn.owner \notin {0, k}
       /\ Cardinality({r \in txn.store : r.category = ""}) = 2

\* --- C4
\* The record of table t with the id of r.
WithId(t, r) == CHOOSE x \in t : x.id = r.id

\* Row r2 is row r with every given new value of the call written to it and
\* no other column changed.
Rewritten(r, r2, a) ==
    /\ r2.id = r.id
    /\ r2.date = (IF IsNone(a.new_date) THEN r.date ELSE Val(a.new_date))
    /\ r2.amount = (IF IsNone(a.new_amount) THEN r.amount ELSE Val(a.new_amount))
    /\ r2.category = (IF IsNone(a.new_category) THEN r.category ELSE Val(a.new_category))
    /\ r2.subcategory =
          (IF IsNone(a.new_subcategory) THEN r.subcategory ELSE Val(a.new_subcategory))
    /\ r2.note = (IF IsNone(a.new_note) THEN r.note ELSE Val(a.new_note))

\* C4: when the dry run of a delete_expenses or update_expenses call previews
\* N rows of the committed table, the same call without dry_run whose
\* statement runs on that table reports deleted = N, respectively
\* updated = N, and deletes, respectively rewrites with the new values,
\* exactly the records whose ids were previewed; every other record stays as
\* it was, and its commit makes exactly that table the committed one.
C4_PreviewThenCommit ==
    [][\A k \in Tasks :
          /\ (Ran(k, Filtered) /\ ~call[k].args.dry_run /\ GotLock(k))
               => \A pre \in {OutcomeWithDryRun(store, seq, call[k], TRUE).result} :
                  \A shown \in {{pre.rows[i].id : i \in 1..Len(pre.rows)}} :
                  \A after \in {txn'.store} :
                     /\ pre.type = "dict"
                     /\ pre.status = "dry_run"
                     /\ cursor'[k].type = "dict"
                     /\ cursor'[k].status = "ok"
                     /\ pc'[k] = "commit"
                     /\ {r \in store : r.id \notin shown} = {r \in after : r.id \notin shown}
                     /\ IF call[k].op = "delete_expenses"
                        THEN /\ cursor'[k].deleted = Len(pre.rows)
                             /\ Ids(after) = Ids(store) \ shown
                        ELSE /\ cursor'[k].updated = Len(pre.rows)
                             /\ Ids(after) = Ids(store)
                             /\ \A i \in 1..Len(pre.rows) :
                                   Rewritten(pre.rows[i], WithId(after, pre.rows[i]),
                                             call[k].args)
          /\ (Stepped(k, Filtered) /\ pc[k] = "commit")
               => /\ txn.owner = k
                  /\ store' = txn.store
                  /\ result'[k] = cursor[k]]_vars

\* An update without dry_run rewrote one of two rows and was committed: the
\* other row does not carry the new note.
C4_Witness ==
    \E k \in Tasks :
       /\ pc[k] = "done"
       /\ call[k].op = "update_expenses"
       /\ ~call[k].args.dry_run
       /\ call[k].args.new_note = Some("n")
       /\ result[k].type = "dict"
       /\ result[k].status = "ok"
       /\ result[k].updated = 1
       /\ Cardinality(store) = 2
       /\ \E r \in store : r.note = ""
       /\ \E r \in store : r.note = "n"

\* --- C5
\* C5: summarize(start_date, end_date, category) returns one row per category
\* among the records list_expenses(start_date, end_date) returns from the
\* same committed table, each with total_amount the sum of those records'
\* amounts in that category; when a category argument is given (the empty
\* string included) only that category's row is returned.
C5_SummarizeMatchesList ==
    [][\A k \in Tasks :
          Ran(k, {"summarize"})
            => LET a      == call[k].args
                   listed == list_expenses(store, seq,
                                 [start_date |-> a.start_date,
                                  end_date |-> a.end_date]).result.rows
                   recs   == {listed[i] : i \in 1..Len(listed)}
                   wanted == IF IsNone(a.category)
                             THEN {r.category : r \in recs}
                             ELSE {r.category : r \in recs} \cap {Val(a.category)}
                   got    == cursor'[k].rows
               IN  /\ cursor'[k].type = "list"
                   /\ {got[i].category : i \in 1..Len(got)} = wanted
                   /\ Len(got) = Cardinality(wanted)
                   /\ \A i \in 1..Len(got) :
                         got[i].total_amount
                            = SumAmount({r \in recs : r.category = got[i].category})]_vars

\* --- C6
\* C6: whatever a tool returns, on success or on failure, is a mapping with a
\* status among ok, error and dry_run; an error carries a message and a dry
\* run carries rows.
C6_UniformEnvelope ==
    \A k \in Tasks :
       (pc[k] = "done" /\ result[k].type # "exception") =>
          /\ result[k].type = "dict"
          /\ result[k].status \in {"ok", "error", "dry_run"}
          /\ result[k].status = "error" => "message" \in DOMAIN result[k]
          /\ result[k].status = "dry_run" => "rows" \in DOMAIN result[k]

\* --- C7
\* C7: no tool lets an exception reach its caller; a call that fails returns
\* status = error with a message, and the committed table is as it was.
C7_NoFaultPropagates ==
    [][\A k \in Tasks :
          (Acting(k) /\ pc'[k] = "done")
            => /\ result'[k].type # "exception"
               /\ IsError(result'[k])
                    => ("message" \in DOMAIN result'[k] /\ store' = store)]_vars

\* --- C8
\* C8: a record that enters the committed table gets an id no committed
\* record has ever had, ids in the table are pairwise distinct, no step of an
\* update_expenses call changes an id, and add_expense and credit_expense
\* return the id under which the new record, with the submitted fields, is
\* committed and listed.
C8_IdsNeverReused ==
    [][/\ \A r \in store' : r.id \notin Ids(store) => r.id \notin history
       /\ Cardinality(Ids(store')) = Cardinality(store')
       /\ \A k \in Tasks :
             /\ Stepped(k, {"update_expenses"})
                  => /\ Ids(store') = Ids(store)
                     /\ txn'.owner = k => Ids(txn'.store) = Ids(store)
             /\ (Stepped(k, Inserts) /\ pc[k] = "commit")
                  => LET a == call[k].args
                         new == Row(result'[k].id, Val(a.date),
                                    IF call[k].op = "add_expense" THEN Val(a.amount)
                                    ELSE -Abs(Val(a.amount)),
                                    Val(a.category), Val(a.subcategory), Val(a.note))
                         listed == list_expenses(store', seq',
                                       [start_date |-> Val(a.date),
                                        end_date |-> Val(a.date)]).result.rows
                     IN  /\ result'[k].type = "dict"
                         /\ result'[k].status = "ok"
                         /\ result'[k].id \notin history
                         /\ result'[k].id \notin Ids(store)
                         /\ store' = store \cup {new}
                         /\ Cardinality({i \in 1..Len(listed) : listed[i] = new}) = 1
                         /\ Cardinality({i \in 1..Len(listed) :
                                            listed[i].id = new.id}) = 1]_vars

\* The most recently created record (id 2) was deleted, and the add that
\* followed was given id 3.
C8_Witness ==
    \E k \in Tasks :
       /\ pc[k] = "done"
       /\ call[k].op = "add_expense"
       /\ result[k].type = "dict"
       /\ result[k].status = "ok"
       /\ result[k].id = 3
       /\ Ids(store) = {3}
       /\ 2 \in history

\* --- C9
\* C9: a delete_expenses call without dry_run is refused exactly when no
\* filter is present (the empty string is present; the range counts only
\* when both bounds are present), and otherwise its statement removes exactly
\* the records that satisfy every present filter, the range inclusive at
\* both ends, and reports their number.
C9_DeleteByPresentFilters ==
    [][\A k \in Tasks :
          /\ (Began(k, {"delete_expenses"}) /\ ~call'[k].args.dry_run)
               => (pc'[k] = "done" <=> ~FilterActive(Filters(call'[k])))
          /\ (Ran(k, {"delete_expenses"}) /\ ~call[k].args.dry_run /\ GotLock(k))
               => /\ txn'.store = {r \in store : ~FilterSelects(r, Filters(call[k]))}
                  /\ cursor'[k].type = "dict"
                  /\ cursor'[k].status = "ok"
                  /\ cursor'[k].deleted = Cardinality(store \ txn'.store)]_vars

\* --- C10
\* C10: an update_expenses call without dry_run, with a new value and a
\* filter present, is not refused, and its statement writes exactly the given
\* new values to exactly the records that satisfy the filter conjunction,
\* leaves every other record and column as it was, and reports the number of
\* matching records.
C10_UpdateByPresentFilters ==
    [][\A k \in Tasks :
          /\ (Began(k, {"update_expenses"}) /\ ~call'[k].args.dry_run
                /\ ~AllNewValuesAbsent(call'[k]) /\ FilterActive(Filters(call'[k])))
               => pc'[k] # "done"
          /\ (Ran(k, {"update_expenses"}) /\ ~call[k].args.dry_run /\ GotLock(k))
               => LET f   == Filters(call[k])
                      hit == {r \in store : FilterSelects(r, f)}
                  IN  /\ cursor'[k].type = "dict"
                      /\ cursor'[k].status = "ok"
                      /\ cursor'[k].updated = Cardinality(hit)
                      /\ Ids(txn'.store) = Ids(store)
                      /\ \A r \in store :
                            IF r \in hit
                            THEN Rewritten(r, WithId(txn'.store, r), call[k].args)
                            ELSE r \in txn'.store]_vars

====
